---- MODULE Spec2Model ----
(***************************************************************************)
(* A model of Addons/Dom.js: the css-query extensions of Element and       *)
(* document (getElements, getElementById, getElement,                      *)
(* getElementsBySelector), the Elements collection (action, filterById,    *)
(* filterByClassName, filterByTagName, filterByAttribute) and the global   *)
(* functions $S, $E, $ES.                                                  *)
(*                                                                         *)
(* A string is a sequence of one-character strings, so that the regular    *)
(* expressions of the source are modelled by what they do on characters.   *)
(***************************************************************************)
EXTENDS Integers, Sequences, FiniteSets, TLC

VARIABLES dom, call, ret, props, listeners, inits, log

vars == <<dom, call, ret, props, listeners, inits, log>>

(***************************************************************************)
(* Characters and JavaScript values                                        *)
(***************************************************************************)

Letters ==
    {"a", "b", "c", "d", "e", "f", "g", "h", "i", "j", "k", "l", "m",
     "n", "o", "p", "q", "r", "s", "t", "u", "v", "w", "x", "y", "z"}

Digits == {"0", "1", "2", "3", "4", "5", "6", "7", "8", "9"}

\* \w of a JavaScript regular expression
IsWordChar(c) == c \in Letters \cup Digits \cup {"_"}

\* [\w_-]
IsIdChar(c) == IsWordChar(c) \/ c = "-"

\* ["\']
IsQuote(c) == c \in {"'", "\""}

\* [\*\^\$]
IsOpChar(c) == c \in {"*", "^", "$"}

\* the value of an unmatched group, of a missing argument
Undefined == <<"undefined">>

\* what getAttribute returns for an attribute the element does not carry
Null == <<"null">>

\* a failed String.test (String.match gives null)
NoBits == [nomatch |-> TRUE]

\* JavaScript truthiness of a string-or-undefined-or-null value
Truthy(s) == s # Undefined /\ s # Null /\ s # << >>

\* s[i], or the empty string past the end
At(s, i) == IF i >= 1 /\ i <= Len(s) THEN s[i] ELSE ""

Star == <<"*">>

(***************************************************************************)
(* The regular expression of getElements                                   *)
(***************************************************************************)

RECURSIVE WordSpan(_, _)
\* the index after the longest run of \w characters of s starting at i
WordSpan(s, i) ==
    IF i <= Len(s) /\ IsWordChar(s[i]) THEN WordSpan(s, i + 1) ELSE i

RECURSIVE IdSpan(_, _)
\* the index after the longest run of [\w_-] characters of s starting at i
IdSpan(s, i) ==
    IF i <= Len(s) /\ IsIdChar(s[i]) THEN IdSpan(s, i + 1) ELSE i

\* ["\']? at i: the index after it
SkipQuote(s, i) == IF IsQuote(At(s, i)) THEN i + 1 ELSE i

\* the groups of a match: bits[1..6] of the source, bits[0] left out
Bits(tag, id, class, attribute, operator, value) ==
    [tag |-> tag, id |-> id, class |-> class,
     attribute |-> attribute, operator |-> operator, value |-> value]

\* the end of the expression: \] and $ at index q
AttributeEnd(s, q, bits) ==
    IF At(s, q) = "]" /\ q = Len(s) THEN bits ELSE NoBits

\* ["\']?(\w*)["\']?\]$ from index v1, after the operator
AttributeValue(s, v1, v2, tag, id, class, attribute, operator) ==
    AttributeEnd(s, SkipQuote(s, v2),
                 Bits(tag, id, class, attribute, operator, SubSeq(s, v1, v2 - 1)))

\* (?:([\*\^\$]?=)["\']?(\w*)["\']?)?\]$ from index a3, o1 being the index
\* after an operator character at a3
AttributeOperator(s, a3, o1, tag, id, class, attribute) ==
    IF At(s, a3) = "]"
    THEN AttributeEnd(s, a3, Bits(tag, id, class, attribute, Undefined, Undefined))
    ELSE IF At(s, o1) = "="
    THEN AttributeValue(s, SkipQuote(s, o1 + 1), WordSpan(s, SkipQuote(s, o1 + 1)),
                        tag, id, class, attribute, SubSeq(s, a3, o1))
    ELSE NoBits

\* the index after [\*\^\$]? at a3
SkipOpChar(s, a3) == IF IsOpChar(At(s, a3)) THEN a3 + 1 ELSE a3

\* (\w+)["\']? from index a1, a2 being the end of the run of \w
AttributeName(s, a1, a2, tag, id, class) ==
    IF a2 = a1 THEN NoBits
    ELSE AttributeOperator(s, SkipQuote(s, a2), SkipOpChar(s, SkipQuote(s, a2)),
                           tag, id, class, SubSeq(s, a1, a2 - 1))

\* (?:\[["\']?(\w+)["\']?(?:([\*\^\$]?=)["\']?(\w*)["\']?)?\])?$  from index p
AttributeBits(s, p, tag, id, class) ==
    IF p = Len(s) + 1
    THEN Bits(tag, id, class, Undefined, Undefined, Undefined)
    ELSE IF At(s, p) # "["
    THEN NoBits
    ELSE AttributeName(s, SkipQuote(s, p + 1), WordSpan(s, SkipQuote(s, p + 1)),
                       tag, id, class)

\* the index after (\w*|\*) at the start of s
TagEnd(s) ==
    IF IsWordChar(At(s, 1)) THEN WordSpan(s, 1)
    ELSE IF At(s, 1) = "*" THEN 2
    ELSE 1

\* a variant in which a token may carry an id and then a class: the class
\* from index p2, c2 being the end of its run
ClassAfterId(s, p1, p2, c2, id) ==
    IF At(s, p2) = "." /\ c2 > p2 + 1
    THEN AttributeBits(s, c2, SubSeq(s, 1, p1 - 1), id, SubSeq(s, p2 + 1, c2 - 1))
    ELSE AttributeBits(s, p2, SubSeq(s, 1, p1 - 1), id, Undefined)

IdThenClass(s, p1, i2) ==
    IF At(s, p1) = "#" /\ i2 > p1 + 1
    THEN ClassAfterId(s, p1, i2, IdSpan(s, i2 + 1), SubSeq(s, p1 + 1, i2 - 1))
    ELSE ClassAfterId(s, p1, p1, i2, Undefined)

\* a variant of the expression in which an id may be followed by a class
SelectorRegexIdThenClass(s) == IdThenClass(s, TagEnd(s), IdSpan(s, TagEnd(s) + 1))

\* (?:#([\w_-]+)|\.([\w_-]+))? from index p1, i2 being the end of the run of
\* [\w_-] after p1; then the attribute
IdOrClass(s, p1, i2) ==
    IF At(s, p1) = "#" /\ i2 > p1 + 1
    THEN AttributeBits(s, i2, SubSeq(s, 1, p1 - 1), SubSeq(s, p1 + 1, i2 - 1), Undefined)
    ELSE IF At(s, p1) = "." /\ i2 > p1 + 1
    THEN AttributeBits(s, i2, SubSeq(s, 1, p1 - 1), Undefined, SubSeq(s, p1 + 1, i2 - 1))
    ELSE AttributeBits(s, p1, SubSeq(s, 1, p1 - 1), Undefined, Undefined)

\* sel.test('^(\\w*|\\*)(?:#([\\w_-]+)|\\.([\\w_-]+))?(?:\\[...\\])?$'):
\* the groups, or NoBits
SelectorRegex(s) == IdOrClass(s, TagEnd(s), IdSpan(s, TagEnd(s) + 1))

\* if (!bits[1]) bits[1] = '*'
DefaultTag(bits) ==
    IF bits = NoBits THEN NoBits
    ELSE IF bits.tag = << >> THEN [bits EXCEPT !.tag = Star]
    ELSE bits

\* the clause of a token: its groups under the names tag, id, class,
\* attribute, operator, value, or NoBits
Param(sel) == DefaultTag(SelectorRegex(sel))

(***************************************************************************)
(* String helpers: clean, split                                            *)
(***************************************************************************)

RECURSIVE Collapse(_)
\* runs of spaces become one space
Collapse(s) ==
    IF Len(s) < 2 THEN s
    ELSE IF s[1] = " " /\ s[2] = " " THEN Collapse(Tail(s))
    ELSE <<s[1]>> \o Collapse(Tail(s))

\* String.clean: whitespace collapsed, then trimmed
Clean(s) ==
    LET c == Collapse(s)
        a == IF At(c, 1) = " " THEN 2 ELSE 1
        b == IF Len(c) >= a /\ c[Len(c)] = " " THEN Len(c) - 1 ELSE Len(c)
    IN  SubSeq(c, a, b)

RECURSIVE SplitFrom(_, _, _, _)
\* the pieces of s between occurrences of sep, from index i, cur being the
\* piece read so far
SplitFrom(s, sep, i, cur) ==
    IF i > Len(s) THEN <<cur>>
    ELSE IF s[i] = sep THEN <<cur>> \o SplitFrom(s, sep, i + 1, << >>)
    ELSE SplitFrom(s, sep, i + 1, Append(cur, s[i]))

\* String.split(sep) for a one-character separator: '' gives ['']
Split(s, sep) == SplitFrom(s, sep, 1, << >>)

(***************************************************************************)
(* The page: a document (node 0) over elements 1..NumNodes numbered in     *)
(* document order                                                          *)
(***************************************************************************)

NumNodes == 3

Document == 0

\* parentNode of the document; document.getElementById of an unknown id
NullNode == -1

\* the false of Element.getElementById
FalseValue == -2

\* the undefined of indexing an empty array
UndefinedValue == -3

Nodes == 1 .. NumNodes

NodeSeq == [i \in 1 .. NumNodes |-> i]

ParentNode(d, n) == IF n = Document THEN NullNode ELSE d.parent[n]

RECURSIVE Ancestors(_, _)
\* the strict ancestors of n, the document among them
Ancestors(d, n) ==
    IF n = Document THEN {}
    ELSE {d.parent[n]} \cup Ancestors(d, d.parent[n])

\* el.id, $Element(el, 'getTag'), el.className, el.getAttribute(name)
IdOf(d, n) == d.elem[n].id

GetTag(d, n) == d.elem[n].tagName

ClassNameOf(d, n) == d.elem[n].className

GetAttribute(d, n, name) ==
    IF name \in DOMAIN d.elem[n].attrs THEN d.elem[n].attrs[name] ELSE Null

\* Element.hasClass: className is one of the space separated class names
HasClass(d, n, className) ==
    \E i \in DOMAIN Split(ClassNameOf(d, n), " ") :
        /\ Split(ClassNameOf(d, n), " ")[i] = className
        /\ className # << >>

\* scope.getElementsByTagName(tagName): the descendants, in document order
GetElementsByTagName(d, scope, tagName) ==
    LET Test(n) == /\ scope \in Ancestors(d, n)
                   /\ (tagName = Star \/ GetTag(d, n) = tagName)
    IN  SelectSeq(NodeSeq, Test)

\* document.getElementById(id): the first element carrying the id, or null
DocumentGetElementById(d, id) ==
    LET hits == {n \in Nodes : IdOf(d, n) = id /\ id # << >>}
    IN  IF hits = {} THEN NullNode
        ELSE CHOOSE n \in hits : \A m \in hits : n <= m

(***************************************************************************)
(* Elements: the internal filters                                          *)
(***************************************************************************)

RECURSIVE Flatten(_)
\* found.extend(...) over the elements of a collection, in order
Flatten(seqs) ==
    IF seqs = << >> THEN << >> ELSE Head(seqs) \o Flatten(Tail(seqs))

FilterById(d, this, id) ==
    LET Test(el) == IdOf(d, el) = id
    IN  SelectSeq(this, Test)

FilterByClassName(d, this, className) ==
    LET Test(el) == HasClass(d, el, className)
    IN  SelectSeq(this, Test)

\* a variant that keeps the elements of the receiver carrying the tag
FilterByTagNameSameSet(d, this, tagName) ==
    LET Test(el) == tagName = Star \/ GetTag(d, el) = tagName
    IN  SelectSeq(this, Test)

FilterByTagName(d, this, tagName) ==
    Flatten([i \in 1 .. Len(this) |-> GetElementsByTagName(d, this[i], tagName)])

RECURSIVE IndexOf(_, _, _)
\* the first index >= i at which sub occurs in s, or 0
IndexOf(s, sub, i) ==
    IF i + Len(sub) - 1 > Len(s) THEN 0
    ELSE IF SubSeq(s, i, i + Len(sub) - 1) = sub THEN i
    ELSE IndexOf(s, sub, i + 1)

\* att.test(value), att.test('^'+value), att.test(value+'$') for a value of
\* word characters: the expression is the literal text
TestContains(att, value) == IndexOf(att, value, 1) # 0

TestStarts(att, value) ==
    Len(value) <= Len(att) /\ SubSeq(att, 1, Len(value)) = value

TestEnds(att, value) ==
    /\ Len(value) <= Len(att)
    /\ SubSeq(att, Len(att) - Len(value) + 1, Len(att)) = value

\* the body of filterByAttribute's each: whether el is pushed
AttributePasses(att, value, operator) ==
    IF ~Truthy(att) THEN FALSE
    ELSE IF ~Truthy(operator) THEN TRUE
    ELSE IF operator = <<"*", "=">> THEN TestContains(att, value)
    ELSE IF operator = <<"=">> THEN att = value
    ELSE IF operator = <<"^", "=">> THEN TestStarts(att, value)
    ELSE IF operator = <<"$", "=">> THEN TestEnds(att, value)
    ELSE FALSE

FilterByAttribute(d, this, name, value, operator) ==
    LET Test(el) == AttributePasses(GetAttribute(d, el, name), value, operator)
    IN  SelectSeq(this, Test)

(***************************************************************************)
(* Element: getElementById, getElements, getElementsBySelector, getElement *)
(***************************************************************************)

RECURSIVE ParentWalk(_, _, _, _)
\* the for loop of getElementById from `parent`: whether `this` is reached,
\* and the number of times the loop test ran
ParentWalk(d, parent, this, steps) ==
    IF parent = this THEN [found |-> TRUE, steps |-> steps + 1]
    ELSE IF parent = NullNode THEN [found |-> FALSE, steps |-> steps + 1]
    ELSE ParentWalk(d, ParentNode(d, parent), this, steps + 1)

\* a variant whose walk starts at the element itself
ElementGetElementByIdOrSelf(d, this, id) ==
    LET el == DocumentGetElementById(d, id)
    IN  IF el = NullNode THEN FalseValue
        ELSE IF ParentWalk(d, el, this, 0).found THEN el
        ELSE FalseValue

ElementGetElementById(d, this, id) ==
    LET el == DocumentGetElementById(d, id)
    IN  IF el = NullNode THEN FalseValue
        ELSE IF ParentWalk(d, ParentNode(d, el), this, 0).found THEN el
        ELSE FalseValue

\* this.getElementById(id): the document keeps its own
GetElementById(d, this, id) ==
    IF this = Document THEN DocumentGetElementById(d, id)
    ELSE ElementGetElementById(d, this, id)

\* if (param['attribute']) filters = ...filterByAttribute(...)
ByAttribute(d, param, filters) ==
    IF Truthy(param.attribute)
    THEN FilterByAttribute(d, filters, param.attribute, param.value, param.operator)
    ELSE filters

\* a variant that leaves out the class
ByAttributeOnly(d, param, filters) == ByAttribute(d, param, filters)

\* if (param['class']) filters = ...filterByClassName(...), then the attribute
ByClassAndAttribute(d, param, filters) ==
    IF Truthy(param.class)
    THEN ByAttribute(d, param, FilterByClassName(d, filters, param.class))
    ELSE ByAttribute(d, param, filters)

\* i == 0 with an id: el is this.getElementById(param['id'])
FirstById(d, param, el, filters) ==
    IF \/ el \in {NullNode, FalseValue}
       \/ param.tag # Star /\ GetTag(d, el) # param.tag
    THEN filters
    ELSE ByClassAndAttribute(d, param, <<el>>)

\* i > 0: byTag is $Elements(filters).filterByTagName(param['tag'])
LaterByTag(d, param, byTag) ==
    IF Truthy(param.id)
    THEN ByClassAndAttribute(d, param, FilterById(d, byTag, param.id))
    ELSE ByClassAndAttribute(d, param, byTag)

\* the function getElements hands to each, for a token that parsed to param
ClauseStep(d, this, param, i, filters) ==
    IF param = NoBits THEN filters
    ELSE IF i = 0 /\ Truthy(param.id)
    THEN FirstById(d, param, GetElementById(d, this, param.id), filters)
    ELSE IF i = 0
    THEN ByClassAndAttribute(d, param, GetElementsByTagName(d, this, param.tag))
    ELSE LaterByTag(d, param, FilterByTagName(d, filters, param.tag))

\* the function getElements hands to each: the filters after the token sel
\* at index i
TokenStep(d, this, sel, i, filters) ==
    ClauseStep(d, this, Param(sel), i, filters)

RECURSIVE EachToken(_, _, _, _, _)
EachToken(d, this, tokens, i, filters) ==
    IF i >= Len(tokens) THEN filters
    ELSE EachToken(d, this, tokens, i + 1,
                   TokenStep(d, this, tokens[i + 1], i, filters))

GetElements(d, this, selector) ==
    EachToken(d, this, Split(Clean(selector), " "), 0, << >>)

\* a variant that evaluates only the first comma separated part
GetElementsBySelectorFirstPart(d, this, selector) ==
    GetElements(d, this, Split(selector, ",")[1])

GetElementsBySelector(d, this, selector) ==
    LET parts == Split(selector, ",")
    IN  Flatten([k \in 1 .. Len(parts) |-> GetElements(d, this, parts[k])])

\* array[0]
IndexZero(array) == IF array = << >> THEN UndefinedValue ELSE array[1]

\* a variant that returns the last element found
GetElementLast(d, this, selector) ==
    LET els == GetElementsBySelector(d, this, selector)
    IN  IF els = << >> THEN UndefinedValue ELSE els[Len(els)]

GetElement(d, this, selector) ==
    IndexZero(GetElementsBySelector(d, this, selector))

(***************************************************************************)
(* The global functions $E, $ES, $S                                        *)
(***************************************************************************)

\* arguments of the global functions: an element, a string, or nothing
ElementArg(n) == [kind |-> "element", el |-> n]

StringArg(str) == [kind |-> "string", str |-> str]

NoArg == [kind |-> "none"]

\* $(arg): the element, the element of that id, or a falsy value
Dollar(d, arg) ==
    IF arg.kind = "element" THEN arg.el
    ELSE IF arg.kind = "string" THEN DocumentGetElementById(d, arg.str)
    ELSE FalseValue

\* $(filter) || document
FilterOrDocument(d, filter) ==
    IF Dollar(d, filter) \in Nodes THEN Dollar(d, filter) ELSE Document

E(d, selector, filter) == GetElement(d, FilterOrDocument(d, filter), selector)

ES(d, selector, filter) ==
    GetElementsBySelector(d, FilterOrDocument(d, filter), selector)

S(d, args) ==
    Flatten([k \in 1 .. Len(args) |->
        IF args[k].kind = "string"
        THEN GetElementsBySelector(d, Document, args[k].str)
        ELSE IF args[k].kind = "element" THEN <<Dollar(d, args[k])>>
        ELSE << >>])

(***************************************************************************)
(* Elements.action                                                         *)
(***************************************************************************)

\* action.test('^on[\\w]{1,}')
OnRegex(key) == At(key, 1) = "o" /\ At(key, 2) = "n" /\ IsWordChar(At(key, 3))

sEvent == <<"e", "v", "e", "n", "t">>

RECURSIVE IdSpanBack(_, _)
\* the first index of the run of [\w-] characters of s that ends at i
IdSpanBack(s, i) ==
    IF i >= 1 /\ IsIdChar(s[i]) THEN IdSpanBack(s, i - 1) ELSE i + 1

\* action.test('([\\w-]{1,})event$'): evt[1], or Undefined when it fails
EventRegex(key) ==
    LET n == Len(key)
        b == IdSpanBack(key, n - 5)
    IN  IF n >= 6 /\ SubSeq(key, n - 4, n) = sEvent /\ b <= n - 5
        THEN SubSeq(key, b, n - 5)
        ELSE Undefined

sInitialize == <<"i", "n", "i", "t", "i", "a", "l", "i", "z", "e">>

NoHandler == "none"

\* el.addEvent(type, fn): one more listener of the element for the type
AddEvent(ls, el, type, fn) ==
    [ls EXCEPT ![el] = [@ EXCEPT ![type] = Append(@, fn)]]

\* a variant that tries the event pattern first
ApplyKeyEventFirst(st, el, key, fn) ==
    IF EventRegex(key) # Undefined
    THEN [st EXCEPT !.l = AddEvent(@, el, EventRegex(key), fn)]
    ELSE IF OnRegex(key)
    THEN [st EXCEPT !.p = [@ EXCEPT ![el] = [@ EXCEPT ![key] = fn]]]
    ELSE st

\* what one key of the actions does to the element: [p, l] are the
\* properties and the listeners
ApplyKey(st, el, key, fn) ==
    IF OnRegex(key)
    THEN [st EXCEPT !.p = [@ EXCEPT ![el] = [@ EXCEPT ![key] = fn]]]
    ELSE IF EventRegex(key) # Undefined
    THEN [st EXCEPT !.l = AddEvent(@, el, EventRegex(key), fn)]
    ELSE st

RECURSIVE ForIn(_, _, _, _)
\* for (var action in actions) over the pairs of actions from index k
ForIn(st, el, actions, k) ==
    IF k > Len(actions) THEN st
    ELSE ForIn(ApplyKey(st, el, actions[k][1], actions[k][2]), el, actions, k + 1)

\* actions.initialize, or NoHandler
InitializeOf(actions) ==
    IF \E k \in DOMAIN actions : actions[k][1] = sInitialize
    THEN actions[CHOOSE k \in DOMAIN actions : actions[k][1] = sInitialize][2]
    ELSE NoHandler

\* the function action hands to each, for el
ActionEach(st, el, actions) ==
    LET init == InitializeOf(actions)
        st1  == IF init # NoHandler
                THEN [st EXCEPT !.i = Append(@, <<init, el>>)]
                ELSE st
    IN  ForIn(st1, el, actions, 1)

RECURSIVE ActionFrom(_, _, _, _)
ActionFrom(st, this, actions, k) ==
    IF k > Len(this) THEN st
    ELSE ActionFrom(ActionEach(st, this[k], actions), this, actions, k + 1)

\* Elements.action(actions) on the collection this
Action(st, this, actions) == ActionFrom(st, this, actions, 1)

(***************************************************************************)
(* Inputs: names, pages, selectors                                         *)
(***************************************************************************)

sDiv == <<"d", "i", "v">>

sP == <<"p">>

sA == <<"a">>

sB == <<"b">>

sX == <<"x">>

sT == <<"t">>

sAB == <<"a", "b">>

\* a b: a descendant combinator; a,b: two selectors
Sp(a, b) == a \o <<" ">> \o b

Comma(a, b) == a \o <<",">> \o b

ElementOf(tagName, id, className, t) ==
    [tagName |-> tagName, id |-> id, className |-> className, attrs |-> (sT :> t)]

\* <div>, <div id="a" t="">, <p class="x" t="ab">, <p>
ElDiv == ElementOf(sDiv, << >>, << >>, Null)

ElDivA == ElementOf(sDiv, sA, << >>, << >>)

ElPX == ElementOf(sP, << >>, sX, sAB)

ElP == ElementOf(sP, << >>, << >>, Null)

Palette == {ElDiv, ElDivA, ElPX, ElP}

\* the parent functions of the pages of NumNodes elements under one root
\* element, the elements numbered in document order
Parents ==
    {p \in [Nodes -> 0 .. NumNodes] :
        /\ p[1] = Document
        /\ \A i \in Nodes \ {1} :
              /\ p[i] \in 1 .. (i - 1)
              /\ p[i] \in {i - 1} \cup Ancestors([parent |-> p], i - 1)}

\* the labellings of the elements in which no two elements share an id
Labellings ==
    {e \in [Nodes -> Palette] :
        \A m, n \in Nodes : m # n /\ e[m].id # << >> => e[m].id # e[n].id}

Doms == {[parent |-> p, elem |-> e] : p \in Parents, e \in Labellings}

\* every element a child of the root element
FlatParent == [i \in Nodes |-> IF i = 1 THEN Document ELSE 1]

PlainDom == [parent |-> FlatParent, elem |-> [i \in Nodes |-> ElDiv]]

AttrValues == {Null, << >>, sA, sAB, <<"b", "a">>}

AttrDoms ==
    {[parent |-> FlatParent, elem |-> e] :
        e \in [Nodes -> {ElementOf(sP, << >>, << >>, v) : v \in AttrValues}]}

Scopes == {Document} \cup Nodes

\* the collections: elements in document order
Receivers ==
    {LET In(n) == n \in sub IN SelectSeq(NodeSeq, In) : sub \in SUBSET Nodes}

tStar == Star

tIdA == <<"#", "a">>

tPX == <<"p", ".", "x">>

tDotX == <<".", "x">>

tDivIdA == sDiv \o tIdA

tPIdA == sP \o tIdA

tBad == <<"a", "[", "b", "a", "d">>

tPAttr == <<"p", "[", "t", "^", "=", "a", "]">>

tAttr == <<"[", "t", "]">>

tDivIdAX == sDiv \o tIdA \o tDotX

\* selectors without a comma in which every token parses
SupportedCompounds ==
    {sDiv, sP, tStar, tIdA, tPX, tDotX, tAttr, Sp(sDiv, sP), Sp(sDiv, sDiv),
     Sp(tIdA, tPX), Sp(tDivIdA, sP), Sp(tPIdA, sP), Sp(sDiv, tPAttr),
     Sp(sDiv, tIdA), Sp(tStar, sP), Sp(Sp(sDiv, sDiv), sP)}

\* selectors with a token that fails the regular expression
MalformedCompounds ==
    {tBad, Sp(tBad, sDiv), Sp(sDiv, tBad), Sp(Sp(sDiv, tBad), sP), Sp(sDiv, tDivIdAX)}

\* selectors with spaces to clean, and the empty selector
PaddedCompounds == {<<" ">> \o sDiv \o <<" ", " ">> \o sP \o <<" ">>, << >>}

CompoundSelectors ==
    SupportedCompounds \cup MalformedCompounds \cup PaddedCompounds

UnionSelectors ==
    {sP, Comma(sDiv, sP), Comma(sP, tPX), Comma(Sp(tIdA, tPX), <<" ">> \o sP),
     Comma(Sp(sDiv, sP), sDiv), Comma(tBad, sP), Comma(Comma(sP, sDiv), sP)}

Ids == {sA, sB}

TagNames == {sDiv, sP, Star}

FilterArgs == {NoArg, StringArg(sA), StringArg(sB)} \cup {ElementArg(n) : n \in Nodes}

SArgs ==
    {<<StringArg(sP)>>, <<StringArg(sDiv), StringArg(sP)>>,
     <<StringArg(Comma(sDiv, sP)), ElementArg(1)>>,
     <<ElementArg(NumNodes), StringArg(tIdA)>>}

\* the tokens handed to the regular expression: a tag part, an id and
\* class part, an attribute part
TagParts == {<< >>, sP, Star, sDiv}

MidParts ==
    {<< >>, tIdA, tDotX, tIdA \o tDotX, tDotX \o tIdA, <<"#">>,
     <<"#", "a", "-", "b">>, <<".", "x", "_", "1">>}

AttrParts ==
    {<< >>, tAttr, <<"[", "t", "=", "a", "b", "]">>,
     <<"[", "t", "^", "=", "a", "]">>, <<"[", "t", "$", "=", "b", "]">>,
     <<"[", "t", "*", "=", "]">>, <<"[", "'", "t", "'", "=", "'", "b", "'", "]">>,
     <<"[", "\"", "t", "=", "b", "'", "]">>,
     <<"[", "t", "~", "=", "a", "]">>, <<"[", "b", "a", "d">>,
     <<"[", "t", "=", "a", "]", "x">>, <<"[", "t", "*", "]">>,
     <<"[", "t", "=", "a", "-", "b", "]">>, <<"[", "]">>}

MatchTokens == {a \o b \o c : a \in TagParts, b \in MidParts, c \in AttrParts}

\* the keys and handlers of the actions handed to Elements.action
kOnClick == <<"o", "n", "c", "l", "i", "c", "k">>

kClickEvent == <<"c", "l", "i", "c", "k">> \o sEvent

kOnClickEvent == kOnClick \o sEvent

kFoo == <<"f", "o", "o">>

kOn == <<"o", "n">>

ActionKeys == {kOnClick, kClickEvent, kOnClickEvent, kFoo, kOn, sInitialize}

Handlers == {"fn1", "fn2"}

ActionObjects ==
    {<<<<k, f>>>> : k \in ActionKeys \ {sInitialize}, f \in Handlers}
    \cup {<<<<sInitialize, "fn1">>, <<kOnClick, "fn2">>>>,
          <<<<kClickEvent, "fn1">>, <<kOnClick, "fn1">>>>,
          <<<<kClickEvent, "fn2">>, <<kOnClick, "fn2">>>>}

ActionReceivers == {<<1>>, <<2>>, <<1, 2>>}

EventTypes == {EventRegex(k) : k \in {k \in ActionKeys : EventRegex(k) # Undefined}}

MaxCalls == 2

(***************************************************************************)
(* State: the page, the call in progress and its result, and what action   *)
(* has left on the elements                                                *)
(***************************************************************************)

Idle == [op |-> "idle"]

NoProps == [n \in Nodes |-> [k \in ActionKeys |-> NoHandler]]

NoListeners == [n \in Nodes |-> [t \in EventTypes |-> << >>]]

InitElements ==
    /\ props = NoProps
    /\ listeners = NoListeners
    /\ inits = << >>
    /\ log = << >>

Init ==
    /\ dom \in Doms
    /\ call = Idle
    /\ ret = << >>
    /\ InitElements

Return ==
    /\ call # Idle
    /\ call' = Idle
    /\ ret' = << >>
    /\ UNCHANGED <<dom, props, listeners, inits, log>>

CallGetElementById ==
    \E this \in Nodes, id \in Ids :
        /\ call = Idle
        /\ call' = [op |-> "getElementById", this |-> this, id |-> id]
        /\ ret' = ElementGetElementById(dom, this, id)
        /\ UNCHANGED <<dom, props, listeners, inits, log>>

CallGetElements ==
    \E this \in Scopes, selector \in CompoundSelectors :
        /\ call = Idle
        /\ call' = [op |-> "getElements", this |-> this, selector |-> selector]
        /\ ret' = GetElements(dom, this, selector)
        /\ UNCHANGED <<dom, props, listeners, inits, log>>

CallGetElementsBySelector ==
    \E this \in Scopes, selector \in UnionSelectors :
        /\ call = Idle
        /\ call' = [op |-> "getElementsBySelector", this |-> this,
                    selector |-> selector]
        /\ ret' = GetElementsBySelector(dom, this, selector)
        /\ UNCHANGED <<dom, props, listeners, inits, log>>

CallGetElement ==
    \E this \in Scopes, selector \in UnionSelectors :
        /\ call = Idle
        /\ call' = [op |-> "getElement", this |-> this, selector |-> selector]
        /\ ret' = GetElement(dom, this, selector)
        /\ UNCHANGED <<dom, props, listeners, inits, log>>

CallE ==
    \E selector \in UnionSelectors, filter \in FilterArgs :
        /\ call = Idle
        /\ call' = [op |-> "$E", selector |-> selector, filter |-> filter]
        /\ ret' = E(dom, selector, filter)
        /\ UNCHANGED <<dom, props, listeners, inits, log>>

CallES ==
    \E selector \in UnionSelectors, filter \in FilterArgs :
        /\ call = Idle
        /\ call' = [op |-> "$ES", selector |-> selector, filter |-> filter]
        /\ ret' = ES(dom, selector, filter)
        /\ UNCHANGED <<dom, props, listeners, inits, log>>

CallS ==
    \E args \in SArgs :
        /\ call = Idle
        /\ call' = [op |-> "$S", args |-> args]
        /\ ret' = S(dom, args)
        /\ UNCHANGED <<dom, props, listeners, inits, log>>

Next ==
    \/ CallGetElementById
    \/ CallGetElements
    \/ CallGetElementsBySelector
    \/ CallGetElement
    \/ CallE
    \/ CallES
    \/ CallS
    \/ Return

Spec == Init /\ [][Next]_vars

\* the internal filters of Elements over the collections of a page
CallFilterById ==
    \E this \in Receivers, id \in Ids :
        /\ call = Idle
        /\ call' = [op |-> "filterById", this |-> this, id |-> id]
        /\ ret' = FilterById(dom, this, id)
        /\ UNCHANGED <<dom, props, listeners, inits, log>>

CallFilterByClassName ==
    \E this \in Receivers, className \in {sX, sA} :
        /\ call = Idle
        /\ call' = [op |-> "filterByClassName", this |-> this,
                    className |-> className]
        /\ ret' = FilterByClassName(dom, this, className)
        /\ UNCHANGED <<dom, props, listeners, inits, log>>

CallFilterByTagName ==
    \E this \in Receivers, tagName \in TagNames :
        /\ call = Idle
        /\ call' = [op |-> "filterByTagName", this |-> this, tagName |-> tagName]
        /\ ret' = FilterByTagName(dom, this, tagName)
        /\ UNCHANGED <<dom, props, listeners, inits, log>>

NextFilter ==
    \/ CallFilterById
    \/ CallFilterByClassName
    \/ CallFilterByTagName
    \/ Return

SpecFilter == Init /\ [][NextFilter]_vars

\* filterByAttribute over pages whose elements differ in the attribute t
InitAttr ==
    /\ dom \in AttrDoms
    /\ call = Idle
    /\ ret = << >>
    /\ InitElements

Operators == {Undefined, <<"=">>, <<"*", "=">>, <<"^", "=">>, <<"$", "=">>}

\* the value and operator arguments: no value without an operator
ValueOperators ==
    {<<Undefined, Undefined>>}
    \cup {<<v, o>> : v \in {<< >>, sA, sB, sAB}, o \in Operators \ {Undefined}}

CallFilterByAttribute ==
    \E this \in Receivers, name \in {sT, sX}, vo \in ValueOperators :
        /\ call = Idle
        /\ call' = [op |-> "filterByAttribute", this |-> this, name |-> name,
                    value |-> vo[1], operator |-> vo[2]]
        /\ ret' = FilterByAttribute(dom, this, name, vo[1], vo[2])
        /\ UNCHANGED <<dom, props, listeners, inits, log>>

NextAttr ==
    \/ CallFilterByAttribute
    \/ Return

SpecAttr == InitAttr /\ [][NextAttr]_vars

\* the regular expression of getElements over tokens
InitOnePage ==
    /\ dom = PlainDom
    /\ call = Idle
    /\ ret = << >>
    /\ InitElements

CallTest ==
    \E sel \in MatchTokens :
        /\ call = Idle
        /\ call' = [op |-> "test", sel |-> sel]
        /\ ret' = Param(sel)
        /\ UNCHANGED <<dom, props, listeners, inits, log>>

NextMatch ==
    \/ CallTest
    \/ Return

SpecMatch == InitOnePage /\ [][NextMatch]_vars

\* a sequence of calls of Elements.action on the elements of a page
CallAction ==
    \E this \in ActionReceivers, actions \in ActionObjects :
        /\ Len(log) < MaxCalls
        /\ props' = Action([p |-> props, l |-> listeners, i |-> inits],
                           this, actions).p
        /\ listeners' = Action([p |-> props, l |-> listeners, i |-> inits],
                               this, actions).l
        /\ inits' = Action([p |-> props, l |-> listeners, i |-> inits],
                           this, actions).i
        /\ log' = Append(log, [this |-> this, actions |-> actions])
        /\ UNCHANGED <<dom, call, ret>>

NextAction ==
    \/ CallAction

SpecAction == InitOnePage /\ [][NextAction]_vars

(***************************************************************************)
(* Properties                                                              *)
(***************************************************************************)

Range(q) == {q[i] : i \in DOMAIN q}

NoDuplicates(q) == \A i, j \in DOMAIN q : i # j => q[i] # q[j]

Count(q, e) == Cardinality({i \in DOMAIN q : q[i] = e})

\* the elements of a set in document order
InDocumentOrder(set) ==
    LET In(n) == n \in set
    IN  SelectSeq(NodeSeq, In)

\* the attribute predicate as the specification words it
StatedPasses(att, value, operator) ==
    /\ att # Null
    /\ IF operator = Undefined THEN Truthy(att)
       ELSE IF operator = <<"=">> THEN att = value
       ELSE IF operator = <<"*", "=">> THEN
            \E i \in 1 .. (Len(att) + 1) : \E j \in (i - 1) .. Len(att) :
                SubSeq(att, i, j) = value
       ELSE IF operator = <<"^", "=">> THEN
            \E j \in 0 .. Len(att) : SubSeq(att, 1, j) = value
       ELSE IF operator = <<"$", "=">> THEN
            \E i \in 1 .. (Len(att) + 1) : SubSeq(att, i, Len(att)) = value
       ELSE FALSE

\* whether element n matches one clause
ClauseMatches(d, n, param) ==
    /\ param.tag = Star \/ GetTag(d, n) = param.tag
    /\ Truthy(param.id) => IdOf(d, n) = param.id
    /\ Truthy(param.class) => HasClass(d, n, param.class)
    /\ Truthy(param.attribute) =>
          StatedPasses(GetAttribute(d, n, param.attribute), param.value,
                       param.operator)

RECURSIVE MatchSet(_, _, _, _)
\* the elements matching the clauses from the k-th on, each under an element
\* matching the clause before it, the first under an element of `above`
MatchSet(d, above, tokens, k) ==
    IF k > Len(tokens) THEN above
    ELSE MatchSet(d,
                  {n \in Nodes : /\ ClauseMatches(d, n, Param(tokens[k]))
                                 /\ \E a \in above : a \in Ancestors(d, n)},
                  tokens, k + 1)

\* the descendants of scope that match a selector without commas
Matching(d, scope, selector) ==
    MatchSet(d, {scope}, Split(Clean(selector), " "), 1)

\* C1: getElements of a selector without commas, all of whose tokens parse,
\* returns each matching descendant of the scope once and nothing else.
C1_CompoundResultUniqueAndExact ==
    (call.op = "getElements" /\ call.selector \in SupportedCompounds) =>
        /\ NoDuplicates(ret)
        /\ Range(ret) = Matching(dom, call.this, call.selector)

RECURSIVE JoinSpaces(_, _)
JoinSpaces(tokens, k) ==
    IF k > Len(tokens) THEN << >>
    ELSE IF k = Len(tokens) THEN tokens[k]
    ELSE tokens[k] \o <<" ">> \o JoinSpaces(tokens, k + 1)

\* a selector without the tokens that fail the regular expression
WithoutMalformed(selector) ==
    LET Parses(sel) == Param(sel) # NoBits
    IN  JoinSpaces(SelectSeq(Split(Clean(selector), " "), Parses), 1)

\* C2: a token that fails the regular expression is skipped: the selector
\* returns what it returns with that token removed, wherever the token stands.
C2_MalformedTokenSkipped ==
    (call.op = "getElements" /\ call.selector \in MalformedCompounds) =>
        ret = GetElements(dom, call.this, WithoutMalformed(call.selector))

\* C3: filterByAttribute keeps, in order, exactly the elements whose attribute
\* satisfies the stated predicate: set, equal, containing, starting with,
\* ending with; never an element without the attribute.
C3_AttributeTruthTable ==
    call.op = "filterByAttribute" =>
        LET Test(el) == StatedPasses(GetAttribute(dom, el, call.name),
                                     call.value, call.operator)
        IN  ret = SelectSeq(call.this, Test)

\* the descendants of element n carrying the tag, in document order
DescendantsWithTag(d, n, tagName) ==
    InDocumentOrder({m \in Nodes : /\ n \in Ancestors(d, m)
                                   /\ (tagName = Star \/ GetTag(d, m) = tagName)})

\* the sum of the lengths of the first k of a sequence of sequences
RECURSIVE LengthUpTo(_, _)
LengthUpTo(seqs, k) ==
    IF k = 0 THEN 0 ELSE Len(seqs[k]) + LengthUpTo(seqs, k - 1)

\* whether q is the sequences of seqs one after the other
IsConcatenation(q, seqs) ==
    /\ Len(q) = LengthUpTo(seqs, Len(seqs))
    /\ \A k \in DOMAIN seqs :
          SubSeq(q, LengthUpTo(seqs, k - 1) + 1, LengthUpTo(seqs, k)) = seqs[k]

\* C4 as stated: the descendants with the tag of each element of the receiver,
\* one after the other, and never an element of the receiver.
C4_NeverAnElementOfTheReceiver ==
    call.op = "filterByTagName" =>
        /\ IsConcatenation(ret, [k \in DOMAIN call.this |->
               DescendantsWithTag(dom, call.this[k], call.tagName)])
        /\ Range(ret) \cap Range(call.this) = {}

\* C4: filterByTagName returns the descendants with the tag of each element of
\* the receiver, one after the other; no element is returned for itself, and
\* an element of the receiver is returned only as a descendant of another
\* element of the receiver.
C4_DescendantsOfEachElement ==
    call.op = "filterByTagName" =>
        /\ IsConcatenation(ret, [k \in DOMAIN call.this |->
               DescendantsWithTag(dom, call.this[k], call.tagName)])
        /\ \A k \in DOMAIN call.this :
              call.this[k] \notin
                  Range(DescendantsWithTag(dom, call.this[k], call.tagName))
        /\ \A e \in Range(ret) :
              \E k \in DOMAIN call.this : call.this[k] \in Ancestors(dom, e)

\* a receiver with an element inside another, the inner one returned
C4_NestedReceiverReturned ==
    /\ call.op = "filterByTagName"
    /\ \E i, j \in DOMAIN call.this :
          /\ call.this[i] \in Ancestors(dom, call.this[j])
          /\ GetTag(dom, call.this[i]) = GetTag(dom, call.this[j])
          /\ call.this[j] \in Range(ret)

\* on<word>: "on" and then word characters to the end of the key
OnForm(key) ==
    /\ Len(key) > 2
    /\ key[1] = "o" /\ key[2] = "n"
    /\ \A i \in 3 .. Len(key) : IsWordChar(key[i])

\* <word>event: word characters and then "event"
EventForm(key) ==
    /\ Len(key) > 5
    /\ SubSeq(key, Len(key) - 4, Len(key)) = sEvent
    /\ \A i \in 1 .. (Len(key) - 5) : IsWordChar(key[i])

EventWord(key) == SubSeq(key, 1, Len(key) - 5)

RECURSIVE LastAssigned(_, _, _, _)
\* the handler the last of the first k calls assigned to el[key]
LastAssigned(lg, k, el, key) ==
    IF k = 0 THEN NoHandler
    ELSE IF /\ el \in Range(lg[k].this)
            /\ OnForm(key)
            /\ \E j \in DOMAIN lg[k].actions : lg[k].actions[j][1] = key
    THEN lg[k].actions[CHOOSE j \in DOMAIN lg[k].actions :
                           lg[k].actions[j][1] = key][2]
    ELSE LastAssigned(lg, k - 1, el, key)

\* the handlers one call registers for a type, in the order of its keys; with
\* onFirst, a key of the form on<word> is not registered
RegisteredBy(actions, type, onFirst) ==
    LET Registers(pair) == /\ EventForm(pair[1])
                           /\ EventWord(pair[1]) = type
                           /\ onFirst => ~OnForm(pair[1])
        pairs == SelectSeq(actions, Registers)
    IN  [j \in DOMAIN pairs |-> pairs[j][2]]

RECURSIVE Registered(_, _, _, _, _)
\* the handlers the first k calls registered on el for a type, in order
Registered(lg, k, el, type, onFirst) ==
    IF k = 0 THEN << >>
    ELSE Registered(lg, k - 1, el, type, onFirst)
         \o (IF el \in Range(lg[k].this)
             THEN RegisteredBy(lg[k].actions, type, onFirst)
             ELSE << >>)

sIdAPX == Sp(tIdA, tPX)

\* <div id="a"><p class="x">1</p><p>2</p></div>
ClaimPage(d) ==
    /\ d.parent[1] = Document /\ d.parent[2] = 1 /\ d.parent[3] = 1
    /\ d.elem[1] = ElDivA /\ d.elem[2] = ElPX /\ d.elem[3] = ElP
    /\ \A n \in Nodes : n > 3 => d.parent[n] # 1

\* C6 as stated: with the div of id a as the scope, '#a p.x' returns the p of
\* class x.
C6_ScopeIsTheDivItself ==
    (/\ ClaimPage(dom)
     /\ call.op = "getElements"
     /\ call.selector = sIdAPX
     /\ call.this = 1) => ret = <<2>>

\* C6: '#a p.x' returns the p elements of class x under the element of id a
\* when the scope is the document or a strict ancestor of that element, and
\* nothing when the scope is that element itself or any other element.
C6_IdResolvedStrictlyBelowScope ==
    (call.op = "getElements" /\ call.selector = sIdAPX) =>
        ret = IF \E e \in Nodes : /\ IdOf(dom, e) = sA
                                 /\ call.this \in Ancestors(dom, e)
              THEN InDocumentOrder(
                       {m \in Nodes :
                           /\ \E e \in Ancestors(dom, m) \cap Nodes :
                                 IdOf(dom, e) = sA
                           /\ GetTag(dom, m) = sP
                           /\ HasClass(dom, m, sX)})
              ELSE << >>

\* the page of the claim queried from the document
C6_FoundFromTheDocument ==
    /\ ClaimPage(dom)
    /\ call.op = "getElements"
    /\ call.selector = sIdAPX
    /\ call.this = Document
    /\ ret = <<2>>

\* C7: getElementsBySelector returns the results of getElements of the comma
\* separated parts one after the other, in their order, nothing removed: an
\* element that k parts match is there at least k times.
C7_UnionIsConcatenation ==
    call.op = "getElementsBySelector" =>
        LET parts   == Split(call.selector, ",")
            results == [k \in DOMAIN parts |->
                           GetElements(dom, call.this, parts[k])]
        IN  /\ IsConcatenation(ret, results)
            /\ \A e \in Nodes :
                  Count(ret, e) >=
                      Cardinality({k \in DOMAIN parts : e \in Range(results[k])})

\* two parts match the same element, which is returned twice
C7_ElementReturnedTwice ==
    /\ call.op = "getElementsBySelector"
    /\ Len(Split(call.selector, ",")) >= 2
    /\ \E e \in Nodes : Count(ret, e) >= 2

FirstOrNone(q) == IF Len(q) = 0 THEN UndefinedValue ELSE Head(q)

\* the scope $E and $ES take: the element given, by reference or by id, or
\* the document
StatedScope(d, filter) ==
    IF filter.kind = "element" THEN filter.el
    ELSE IF filter.kind = "string" /\ \E n \in Nodes : IdOf(d, n) = filter.str
    THEN CHOOSE n \in Nodes : IdOf(d, n) = filter.str
    ELSE Document

\* C8: getElement and $E return the first element of getElementsBySelector on
\* the same scope, the document when $E is given none, or undefined when
\* there is none: always an element or undefined.
C8_FirstOfTheUnion ==
    /\ call.op = "getElement" =>
          ret = FirstOrNone(GetElementsBySelector(dom, call.this, call.selector))
    /\ call.op = "$E" =>
          ret = FirstOrNone(GetElementsBySelector(
                    dom, StatedScope(dom, call.filter), call.selector))
    /\ call.op \in {"getElement", "$E"} => ret \in Nodes \cup {UndefinedValue}

\* $E without a scope, several elements matching
C8_FirstOfSeveral ==
    /\ call.op = "$E"
    /\ call.filter = NoArg
    /\ Len(GetElementsBySelector(dom, Document, call.selector)) >= 2
    /\ ret = GetElementsBySelector(dom, Document, call.selector)[1]

AllWord(q) == \A i \in DOMAIN q : IsWordChar(q[i])

AllId(q) == \A i \in DOMAIN q : IsIdChar(q[i])

\* a tag: word characters (none too), or '*'
IsTagText(q) == q = Star \/ AllWord(q)

\* '#id' or '.class' with a name of [\w_-] characters
IsNamed(q, mark) == Len(q) >= 2 /\ q[1] = mark /\ AllId(Tail(q))

\* q without a quote character at its start and at its end
Unquoted(q) ==
    SubSeq(q, IF IsQuote(At(q, 1)) THEN 2 ELSE 1,
              IF Len(q) >= 2 /\ IsQuote(q[Len(q)]) THEN Len(q) - 1 ELSE Len(q))

\* the text between [ and ]: with quotes, a name and a value may each have a
\* quote character before and after
IsNameText(q, quotes) ==
    IF quotes THEN Unquoted(q) # << >> /\ AllWord(Unquoted(q)) /\ Len(q) >= 1
                   /\ (Len(q) = 1 => ~IsQuote(q[1]))
    ELSE q # << >> /\ AllWord(q)

IsValueText(q, quotes) == IF quotes THEN AllWord(Unquoted(q)) ELSE AllWord(q)

\* the index of the first = of q, or 0
FirstEquals(q) ==
    IF \E i \in DOMAIN q : q[i] = "="
    THEN CHOOSE i \in DOMAIN q : q[i] = "=" /\ \A j \in 1 .. (i - 1) : q[j] # "="
    ELSE 0

\* the text before the operator of an attribute text with an = at index e
NameBefore(q, e) ==
    IF e >= 2 /\ IsOpChar(q[e - 1]) THEN SubSeq(q, 1, e - 2) ELSE SubSeq(q, 1, e - 1)

\* '[attr]' or '[attr op value]' with op one of =, *=, ^=, $=
IsAttributeText(q, quotes) ==
    /\ Len(q) >= 3 /\ q[1] = "[" /\ q[Len(q)] = "]"
    /\ LET inner == SubSeq(q, 2, Len(q) - 1)
           e     == FirstEquals(inner)
       IN  IF e = 0 THEN IsNameText(inner, quotes)
           ELSE /\ IsNameText(NameBefore(inner, e), quotes)
                /\ IsValueText(SubSeq(inner, e + 1, Len(inner)), quotes)

\* tag, then '#id' and '.class' each optional, then the attribute: no quotes
InStatedGrammar(tok) ==
    \E i \in 0 .. Len(tok) : \E j \in i .. Len(tok) : \E k \in j .. Len(tok) :
        /\ IsTagText(SubSeq(tok, 1, i))
        /\ i = j \/ IsNamed(SubSeq(tok, i + 1, j), "#")
        /\ j = k \/ IsNamed(SubSeq(tok, j + 1, k), ".")
        /\ k = Len(tok) \/ IsAttributeText(SubSeq(tok, k + 1, Len(tok)), FALSE)

\* tag, then either '#id' or '.class' or neither, then the attribute, whose
\* name and value may be quoted
InGrammar(tok) ==
    \E i \in 0 .. Len(tok) : \E j \in i .. Len(tok) :
        /\ IsTagText(SubSeq(tok, 1, i))
        /\ \/ i = j
           \/ IsNamed(SubSeq(tok, i + 1, j), "#")
           \/ IsNamed(SubSeq(tok, i + 1, j), ".")
        /\ j = Len(tok) \/ IsAttributeText(SubSeq(tok, j + 1, Len(tok)), TRUE)

\* the index of the first occurrence of a character of marks in q, or
\* Len(q) + 1
FirstOf(q, marks) ==
    IF \E i \in DOMAIN q : q[i] \in marks
    THEN CHOOSE i \in DOMAIN q :
             q[i] \in marks /\ \A j \in 1 .. (i - 1) : q[j] \notin marks
    ELSE Len(q) + 1

\* the clause a token of the grammar stands for
StatedClause(tok) ==
    LET b     == FirstOf(tok, {"["})
        m     == FirstOf(SubSeq(tok, 1, b - 1), {"#", "."})
        inner == SubSeq(tok, b + 1, Len(tok) - 1)
        e     == FirstEquals(inner)
    IN  [tag       |-> IF m = 1 THEN Star ELSE SubSeq(tok, 1, m - 1),
         id        |-> IF At(tok, m) = "#" /\ m < b
                       THEN SubSeq(tok, m + 1, b - 1) ELSE Undefined,
         class     |-> IF At(tok, m) = "." /\ m < b
                       THEN SubSeq(tok, m + 1, b - 1) ELSE Undefined,
         attribute |-> IF b > Len(tok) THEN Undefined
                       ELSE IF e = 0 THEN Unquoted(inner)
                       ELSE Unquoted(NameBefore(inner, e)),
         operator  |-> IF b > Len(tok) \/ e = 0 THEN Undefined
                       ELSE SubSeq(inner, Len(NameBefore(inner, e)) + 1, e),
         value     |-> IF b > Len(tok) \/ e = 0 THEN Undefined
                       ELSE Unquoted(SubSeq(inner, e + 1, Len(inner)))]

\* C9 as stated: the expression accepts the tokens made of an optional tag,
\* an optional '#id', an optional '.class' and an optional attribute, a token
\* with an id and a class among them, and no other token.
C9_IdAndClassBothAccepted ==
    call.op = "test" => (ret # NoBits <=> InStatedGrammar(call.sel))

\* C9: the expression accepts the tokens made of an optional tag, then either
\* '#id' or '.class' or neither, then an optional attribute whose name and
\* value may be quoted, and no other token; an accepted token gives the
\* clause of its parts, the tag '*' when there is none.
C9_IdOrClassNotBoth ==
    call.op = "test" =>
        /\ ret # NoBits <=> InGrammar(call.sel)
        /\ ret # NoBits => ret = StatedClause(call.sel)

\* div#a.x is handed to the expression, which fails
C9_IdAndClassRejected ==
    /\ call.op = "test"
    /\ call.sel = tDivIdAX
    /\ ret = NoBits

\* C10: every element getElements and getElementsBySelector return lies
\* strictly below the scope; Element.getElementById returns the element of
\* the id when the scope is one of its strict ancestors and false otherwise,
\* after a parent walk of at most NumNodes + 1 tests.
C10_ResultsStrictlyBelowScope ==
    /\ call.op \in {"getElements", "getElementsBySelector"} =>
          \A e \in Range(ret) : e \in Nodes /\ call.this \in Ancestors(dom, e)
    /\ call.op = "getElementById" =>
          /\ \A e \in Nodes :
                (IdOf(dom, e) = call.id /\ call.this \in Ancestors(dom, e))
                    => ret = e
          /\ (\A e \in Nodes :
                 ~(IdOf(dom, e) = call.id /\ call.this \in Ancestors(dom, e)))
                    => ret = FalseValue
          /\ \A e \in Nodes :
                ParentWalk(dom, ParentNode(dom, e), call.this, 0).steps
                    <= NumNodes + 1

\* the id exists, but not below the scope: false
C10_IdOutsideScope ==
    /\ call.op = "getElementById"
    /\ \E e \in Nodes : IdOf(dom, e) = call.id
    /\ ret = FalseValue

====
